---- MODULE Spec2Model ----
(***************************************************************************)
(* A model of chui's command execution and plugin lifecycle core:          *)
(*   - CommandPipeline (src/chui/commands/pipeline.py)                     *)
(*   - PluginRegistry  (src/chui/plugins/registry.py), with the            *)
(*     CommandRegistry (src/chui/commands/registry.py) and the ChuiCLI     *)
(*     command table (src/chui/cli.py) that it drives                      *)
(*   - EventManager    (src/chui/events/base.py).                          *)
(* Each subsystem has its own specification; the variables of the other    *)
(* subsystems stay at their initial values.                                *)
(***************************************************************************)
EXTENDS Integers, Sequences, FiniteSets, TLC

(***************************************************************************)
(* Bounds of the model.                                                    *)
(***************************************************************************)
MaxInvocations == 1
MaxHooks == 1
MaxPreHooks == 2
MaxClock == 1
MaxSubscriptions == 2
MaxTimeline == 2

(* The timeout, in seconds, of the invocations that carry one. *)
TimeoutSecs == 5

VARIABLES
    \* ---- CommandPipeline ----
    clock,            \* what datetime.now() returns (at most MaxClock)
    hooks,            \* CommandHook: number of callbacks per phase
    active_commands,  \* keys of CommandPipeline._active_commands
    results,          \* CommandPipeline._results
    emitted,          \* events handed to event_manager.emit since the last
                      \* call of execute began: <<name, command_id>>
    pc,               \* position of the call of execute in progress
    context,          \* its CommandContext
    result,           \* its local variable `result`
    exc,              \* the exception its except clause caught
    propagating,      \* the exception leaving execute through finally
    ran,              \* hooks called, and strategy run, by the call
    ret,              \* how the last call of execute ended
    cancelRet,        \* how the call of cancel_command in the last step ended
    nextId,           \* the next fresh invocation id
    \* ---- PluginRegistry ----
    plugins,          \* keys of PluginRegistry.plugins, in map order
    load_order,       \* PluginRegistry._load_order
    initialized,      \* loaded plugins whose `initialized` flag is set
    plugin_commands,  \* keys of PluginRegistry.commands
    command_categories,  \* PluginRegistry.command_categories
    \* ---- CommandRegistry ----
    registry_commands,   \* keys of CommandRegistry._commands
    registry_categories, \* CommandRegistry._categories
    registry_instances,  \* keys of CommandRegistry._command_instances
    extended_categories, \* CommandRegistry.validator.extended_categories
    \* ---- ChuiCLI ----
    shell_commands,   \* keys of ChuiCLI._plugin_commands
    shell_attrs,      \* names n with do_n and help_n set on the class ChuiCLI
    call,             \* the last call on the plugin subsystem and how it ended
    \* ---- EventManager ----
    handlers,             \* EventManager._handlers
    wildcard_handlers,    \* EventManager._wildcard_handlers
    active_operations,    \* EventManager._active_operations
    completed_operations, \* EventManager._completed_operations
    subscriptions,        \* the subscriptions in force, oldest first:
                          \* <<event_name, handler>>
    operation_ids,        \* the ids uuid4() has returned to start_operation
    busCall               \* the last call on the EventManager and how it ended

pipelineVars == <<clock, hooks, active_commands, results, emitted, pc, context,
                  result, exc, propagating, ran, ret, cancelRet, nextId>>

pluginVars == <<plugins, load_order, initialized, plugin_commands,
                command_categories, registry_commands, registry_categories,
                registry_instances, extended_categories, shell_commands,
                shell_attrs, call>>

eventVars == <<handlers, wildcard_handlers, active_operations,
               completed_operations, subscriptions, operation_ids, busCall>>

vars == <<pipelineVars, pluginVars, eventVars>>

(***************************************************************************)
(* CommandPipeline                                                         *)
(***************************************************************************)
Ids == 1..MaxInvocations

\* CommandStatus
QUEUED == "queued"
RUNNING == "running"
COMPLETED == "completed"
FAILED == "failed"
CANCELLED == "cancelled"

CommandStatus == {QUEUED, RUNNING, COMPLETED, FAILED, CANCELLED}
Terminal == {COMPLETED, FAILED, CANCELLED}

\* Optional values: <<>> is None, <<v>> is v.
None == <<>>
Some(v) == <<v>>

\* Message texts: a text and the number formatted into it (0 when none is).
Msg(text, n) == [text |-> text, n |-> n]
NoText == Msg("None", 0)

\* Exceptions: the type and str(e).
Exception(type, msg) == [type |-> type, msg |-> msg]
NoException == Exception("None", NoText)
HookException == Exception("Exception", Msg("hook failed", 0))
EventError == Exception("EventError", Msg("Error in event handler", 0))
TypeError == Exception("TypeError", Msg("handle() got an unexpected keyword argument 'command'", 0))
KeyError == Exception("KeyError", Msg("command_id", 0))
ValueError == Exception("ValueError", Msg("No active command found with id", 0))

\* CommandResult(command_id, status, start_time), the other fields defaulted.
CommandResult(id, status, start) ==
    [command_id |-> id, status |-> status, start_time |-> start,
     end_time |-> None, exit_code |-> None, output |-> NoText, error |-> NoText]

\* No CommandResult (an absent key of _results, an unbound local).
NoResult == CommandResult(0, "None", 0)

\* CommandContext: host "" is a local invocation; proc is what the child
\* process of a local invocation does.
ProcOutcomes == {"exit0", "exit_nonzero", "spawn_fail", "overrun"}
Hosts == {"", "remote1"}
Contexts(id) ==
    {[command_id |-> id, host |-> "", timeout |-> Some(TimeoutSecs), proc |-> p] :
        p \in ProcOutcomes}
    \cup
    {[command_id |-> id, host |-> h, timeout |-> None, proc |-> "exit0"] :
        h \in Hosts \ {""}}
NoContext == [command_id |-> 0, host |-> "", timeout |-> None, proc |-> "exit0"]

NoRun == [pre |-> 0, post |-> 0, on_error |-> 0, started |-> FALSE,
          strategy |-> "none"]
NoReturn == [context |-> NoContext, outcome |-> "none", exc |-> NoException,
             result |-> NoResult, ran |-> NoRun]
NoCancelReturn == [command_id |-> 0, outcome |-> "none", exc |-> NoException,
                   wasActive |-> FALSE]

PipelineInitVars ==
    /\ clock = 0
    /\ hooks = [pre_execute |-> 0, post_execute |-> 0, on_error |-> 0]
    /\ active_commands = {}
    /\ results = [i \in Ids |-> NoResult]
    /\ emitted = {}
    /\ pc = "idle"
    /\ context = NoContext
    /\ result = NoResult
    /\ exc = NoException
    /\ propagating = NoException
    /\ ran = NoRun
    /\ ret = NoReturn
    /\ cancelRet = NoCancelReturn
    /\ nextId = 1

\* The number of hooks of a type the model registers at most.
HookLimit(hook_type) == IF hook_type = "pre_execute" THEN MaxPreHooks ELSE MaxHooks

\* register_hook(hook_type, callback); the model registers the hooks while
\* the pipeline is set up, before the first invocation.
RegisterHook(hook_type) ==
    /\ pc = "idle"
    /\ nextId = 1
    /\ hooks[hook_type] < HookLimit(hook_type)
    /\ hooks' = [hooks EXCEPT ![hook_type] = @ + 1]
    /\ cancelRet' = NoCancelReturn
    /\ UNCHANGED <<clock, active_commands, results, emitted, pc, context,
                   result, exc, propagating, ran, ret, nextId>>
    /\ UNCHANGED <<pluginVars, eventVars>>

\* get_result(command_id)
get_result(id) == results[id]

\* get_active_commands()
get_active_commands == active_commands

\* The part of the pipeline's state a callback can change by calling
\* cancel_command; ev are the events the caller has just emitted.
Store(ev) ==
    [active_commands |-> active_commands, results |-> results,
     emitted |-> emitted \cup ev, cancelRet |-> NoCancelReturn]

SetStore(st) ==
    /\ active_commands' = st.active_commands
    /\ results' = st.results
    /\ emitted' = st.emitted
    /\ cancelRet' = st.cancelRet

\* cancel_command without line 335: the id stays in the active map.
cancel_command_keeps_active(command_id, handlerRaises, st) ==
    IF command_id \notin st.active_commands
    THEN [st EXCEPT !.cancelRet =
            [command_id |-> command_id, outcome |-> "raised",
             exc |-> ValueError, wasActive |-> FALSE]]
    ELSE [st EXCEPT
            !.results = [st.results EXCEPT ![command_id] =
                [CommandResult(command_id, CANCELLED, clock)
                    EXCEPT !.end_time = Some(clock)]],
            !.emitted = st.emitted \cup {<<"command.cancelled", command_id>>},
            !.cancelRet =
                [command_id |-> command_id,
                 outcome |-> IF handlerRaises THEN "raised" ELSE "returned",
                 exc |-> IF handlerRaises THEN EventError ELSE NoException,
                 wasActive |-> TRUE]]

\* cancel_command(command_id) on the state st; handlerRaises says whether a
\* handler of command.cancelled raises, which emit turns into an EventError.
cancel_command(command_id, handlerRaises, st) ==
    IF command_id \notin st.active_commands
    THEN [st EXCEPT !.cancelRet =
            [command_id |-> command_id, outcome |-> "raised",
             exc |-> ValueError, wasActive |-> FALSE]]
    ELSE [active_commands |-> st.active_commands \ {command_id},
          results |-> [st.results EXCEPT ![command_id] =
              [CommandResult(command_id, CANCELLED, clock)
                  EXCEPT !.end_time = Some(clock)]],
          emitted |-> st.emitted \cup {<<"command.cancelled", command_id>>},
          cancelRet |->
              [command_id |-> command_id,
               outcome |-> IF handlerRaises THEN "raised" ELSE "returned",
               exc |-> IF handlerRaises THEN EventError ELSE NoException,
               wasActive |-> TRUE]]

\* What a hook or an event handler does: it may call cancel_command(cancel)
\* (cancel = 0: it does not), and it raises or returns.
Callbacks ==
    {cb \in [cancel : {0, context.command_id}, handlerRaises : BOOLEAN,
             raises : BOOLEAN] :
        cb.cancel = 0 => ~cb.handlerRaises}

RunCallback(cb, st) ==
    IF cb.cancel = 0 THEN st ELSE cancel_command(cb.cancel, cb.handlerRaises, st)

\* cancel_command called between two calls of execute.
CancelCommand(command_id) ==
    /\ pc = "idle"
    /\ \E handlerRaises \in BOOLEAN :
           SetStore(cancel_command(command_id, handlerRaises, Store({})))
    /\ UNCHANGED <<clock, hooks, pc, context, result, exc, propagating, ran,
                   ret, nextId>>
    /\ UNCHANGED <<pluginVars, eventVars>>

\* execute, lines 76-83: the invocation enters the active map, result is QUEUED.
Execute(ctx) ==
    /\ pc = "idle"
    /\ nextId <= MaxInvocations
    /\ ctx.command_id = nextId
    /\ nextId' = nextId + 1
    /\ active_commands' = active_commands \cup {ctx.command_id}
    /\ context' = ctx
    /\ result' = CommandResult(ctx.command_id, QUEUED, clock)
    /\ ran' = NoRun
    /\ exc' = NoException
    /\ propagating' = NoException
    /\ pc' = "pre"
    /\ emitted' = {}
    /\ ret' = NoReturn
    /\ cancelRet' = NoCancelReturn
    /\ UNCHANGED <<clock, hooks, results>>
    /\ UNCHANGED <<pluginVars, eventVars>>

\* execute, lines 86-88: one pre_execute hook.
PreHook ==
    /\ pc = "pre"
    /\ ran.pre < hooks.pre_execute
    /\ \E cb \in Callbacks :
        /\ SetStore(RunCallback(cb, Store({})))
        /\ ran' = [ran EXCEPT !.pre = @ + 1]
        /\ IF cb.raises
           THEN pc' = "except" /\ exc' = HookException
           ELSE pc' = pc /\ exc' = exc
    /\ UNCHANGED <<clock, hooks, context, result, propagating, ret, nextId>>
    /\ UNCHANGED <<pluginVars, eventVars>>

\* execute, lines 90-102: emit command.started, then RUNNING.
EmitStarted ==
    /\ pc = "pre"
    /\ ran.pre = hooks.pre_execute
    /\ \E cb \in Callbacks :
        /\ SetStore(RunCallback(cb, Store({<<"command.started", context.command_id>>})))
        /\ IF cb.raises
           THEN pc' = "except" /\ exc' = EventError /\ result' = result
           ELSE /\ pc' = "strategy" /\ exc' = exc
                /\ result' = [result EXCEPT !.status = RUNNING]
    /\ ran' = [ran EXCEPT !.started = TRUE]
    /\ UNCHANGED <<clock, hooks, context, propagating, ret, nextId>>
    /\ UNCHANGED <<pluginVars, eventVars>>

\* _execute_local: the result it returns; start and now are the two readings
\* of the clock.
execute_local(ctx, start, now) ==
    LET r == CommandResult(ctx.command_id, RUNNING, start) IN
    CASE ctx.proc = "exit0" ->
            [r EXCEPT !.exit_code = Some(0), !.output = Msg("stdout", 0),
                      !.status = COMPLETED, !.end_time = Some(now)]
      [] ctx.proc = "exit_nonzero" ->
            [r EXCEPT !.exit_code = Some(1), !.output = Msg("stdout", 0),
                      !.status = FAILED, !.error = Msg("stderr", 0),
                      !.end_time = Some(now)]
      [] ctx.proc = "overrun" ->
            [r EXCEPT !.status = FAILED,
                      !.error = Msg("Command timed out after {timeout} seconds",
                                    ctx.timeout[1]),
                      !.exit_code = Some(-1), !.end_time = Some(now)]
      [] ctx.proc = "spawn_fail" ->
            [r EXCEPT !.status = FAILED,
                      !.error = Msg("No such file or directory", 0),
                      !.exit_code = Some(-1), !.end_time = Some(now)]

\* _execute_remote: the placeholder result.
execute_remote(ctx, start, now) ==
    [CommandResult(ctx.command_id, FAILED, start)
        EXCEPT !.end_time = Some(now),
               !.error = Msg("Remote execution not yet implemented", 0)]

\* execute, lines 104-110: result is rebound to what the strategy returns.
\* datetime.now() is non-decreasing; the model lets time pass where execute
\* blocks, while the local strategy waits for the child process.
Strategy ==
    /\ pc = "strategy"
    /\ IF context.host # ""
       THEN /\ clock' = clock
            /\ result' = execute_remote(context, clock, clock')
            /\ ran' = [ran EXCEPT !.strategy = "remote"]
       ELSE /\ \E elapsed \in 0..1 :
                /\ clock + elapsed <= MaxClock
                /\ clock' = clock + elapsed
            /\ result' = execute_local(context, clock, clock')
            /\ ran' = [ran EXCEPT !.strategy = "local"]
    /\ pc' = "mark_completed"
    /\ cancelRet' = NoCancelReturn
    /\ UNCHANGED <<hooks, active_commands, results, emitted, context,
                   exc, propagating, ret, nextId>>
    /\ UNCHANGED <<pluginVars, eventVars>>

\* execute, lines 112-113.
MarkCompleted ==
    /\ pc = "mark_completed"
    /\ result' = [result EXCEPT !.status = COMPLETED, !.end_time = Some(clock)]
    /\ pc' = "post"
    /\ cancelRet' = NoCancelReturn
    /\ UNCHANGED <<clock, hooks, active_commands, results, emitted, context,
                   exc, propagating, ran, ret, nextId>>
    /\ UNCHANGED <<pluginVars, eventVars>>

\* execute, lines 115-117: one post_execute hook.
PostHook ==
    /\ pc = "post"
    /\ ran.post < hooks.post_execute
    /\ \E cb \in Callbacks :
        /\ SetStore(RunCallback(cb, Store({})))
        /\ ran' = [ran EXCEPT !.post = @ + 1]
        /\ IF cb.raises
           THEN pc' = "except" /\ exc' = HookException
           ELSE pc' = pc /\ exc' = exc
    /\ UNCHANGED <<clock, hooks, context, result, propagating, ret, nextId>>
    /\ UNCHANGED <<pluginVars, eventVars>>

\* execute, lines 119-128: emit command.completed.
EmitCompleted ==
    /\ pc = "post"
    /\ ran.post = hooks.post_execute
    /\ \E cb \in Callbacks :
        /\ SetStore(RunCallback(cb, Store({<<"command.completed", context.command_id>>})))
        /\ IF cb.raises
           THEN pc' = "except" /\ exc' = EventError
           ELSE pc' = "finally" /\ exc' = exc
    /\ UNCHANGED <<clock, hooks, context, result, propagating, ran, ret, nextId>>
    /\ UNCHANGED <<pluginVars, eventVars>>

\* The except clause without line 132: end_time is not stamped.
ExceptNoEndTime ==
    /\ pc = "except"
    /\ result' = [result EXCEPT !.status = FAILED, !.error = exc.msg]
    /\ pc' = "on_error"
    /\ cancelRet' = NoCancelReturn
    /\ UNCHANGED <<clock, hooks, active_commands, results, emitted, context,
                   exc, propagating, ran, ret, nextId>>
    /\ UNCHANGED <<pluginVars, eventVars>>

\* The except clause without lines 131 and 133: the result keeps its status
\* and has no error text.
ExceptKeepsStatus ==
    /\ pc = "except"
    /\ result' = [result EXCEPT !.end_time = Some(clock)]
    /\ pc' = "on_error"
    /\ cancelRet' = NoCancelReturn
    /\ UNCHANGED <<clock, hooks, active_commands, results, emitted, context,
                   exc, propagating, ran, ret, nextId>>
    /\ UNCHANGED <<pluginVars, eventVars>>

\* execute, lines 130-133: the except clause marks the result FAILED.
Except ==
    /\ pc = "except"
    /\ result' = [result EXCEPT !.status = FAILED, !.end_time = Some(clock),
                                !.error = exc.msg]
    /\ pc' = "on_error"
    /\ cancelRet' = NoCancelReturn
    /\ UNCHANGED <<clock, hooks, active_commands, results, emitted, context,
                   exc, propagating, ran, ret, nextId>>
    /\ UNCHANGED <<pluginVars, eventVars>>

\* execute, lines 135-137: one on_error hook; its exception leaves execute.
ErrorHook ==
    /\ pc = "on_error"
    /\ ran.on_error < hooks.on_error
    /\ \E cb \in Callbacks :
        /\ SetStore(RunCallback(cb, Store({})))
        /\ ran' = [ran EXCEPT !.on_error = @ + 1]
        /\ IF cb.raises
           THEN pc' = "finally" /\ propagating' = HookException
           ELSE pc' = pc /\ propagating' = propagating
    /\ UNCHANGED <<clock, hooks, context, result, exc, ret, nextId>>
    /\ UNCHANGED <<pluginVars, eventVars>>

\* execute, lines 139-147: emit command.failed.
EmitFailed ==
    /\ pc = "on_error"
    /\ ran.on_error = hooks.on_error
    /\ \E cb \in Callbacks :
        /\ SetStore(RunCallback(cb, Store({<<"command.failed", context.command_id>>})))
        /\ IF cb.raises
           THEN pc' = "finally" /\ propagating' = EventError
           ELSE pc' = "handle" /\ propagating' = propagating
    /\ UNCHANGED <<clock, hooks, context, result, exc, ran, ret, nextId>>
    /\ UNCHANGED <<pluginVars, eventVars>>

\* ErrorHandler.handle: the keyword parameters it declares.
HandleParams == {"error", "category", "severity", "context", "operation", "debug"}

\* The exception a call handle(**kwargs) ends with.
handle(kwargs) == IF kwargs \subseteq HandleParams THEN NoException ELSE TypeError

\* execute, lines 149-154: error_handler.handle(error=, command=, host=).
HandleError ==
    /\ pc = "handle"
    /\ propagating' = handle({"error", "command", "host"})
    /\ pc' = "finally"
    /\ cancelRet' = NoCancelReturn
    /\ UNCHANGED <<clock, hooks, active_commands, results, emitted, context,
                   result, exc, ran, ret, nextId>>
    /\ UNCHANGED <<pluginVars, eventVars>>

\* The finally clause without line 160: the active entry stays.
FinallyKeepsActive ==
    /\ pc = "finally"
    /\ results' = [results EXCEPT ![context.command_id] = result]
    /\ ret' = [context |-> context,
               outcome |-> IF propagating = NoException THEN "returned" ELSE "raised",
               exc |-> propagating,
               result |-> IF propagating = NoException THEN result ELSE NoResult,
               ran |-> ran]
    /\ pc' = "idle"
    /\ context' = NoContext
    /\ result' = NoResult
    /\ exc' = NoException
    /\ propagating' = NoException
    /\ ran' = NoRun
    /\ cancelRet' = NoCancelReturn
    /\ UNCHANGED <<clock, hooks, active_commands, emitted, nextId>>
    /\ UNCHANGED <<pluginVars, eventVars>>

\* execute, lines 156-162: store the result, drop the active entry, return.
Finally ==
    /\ pc = "finally"
    /\ results' = [results EXCEPT ![context.command_id] = result]
    /\ active_commands' = active_commands \ {context.command_id}
    /\ LET leaving == IF context.command_id \notin active_commands
                      THEN KeyError ELSE propagating
       IN ret' = [context |-> context,
                  outcome |-> IF leaving = NoException THEN "returned" ELSE "raised",
                  exc |-> leaving,
                  result |-> IF leaving = NoException THEN result ELSE NoResult,
                  ran |-> ran]
    /\ pc' = "idle"
    /\ context' = NoContext
    /\ result' = NoResult
    /\ exc' = NoException
    /\ propagating' = NoException
    /\ ran' = NoRun
    /\ cancelRet' = NoCancelReturn
    /\ UNCHANGED <<clock, hooks, emitted, nextId>>
    /\ UNCHANGED <<pluginVars, eventVars>>

(***************************************************************************)
(* PluginRegistry, CommandRegistry and the ChuiCLI command table           *)
(***************************************************************************)

\* Category names are sequences of characters, so that the validator's
\* pattern can be applied to them.
general == <<"g", "e", "n", "e", "r", "a", "l">>
system == <<"s", "y", "s", "t", "e", "m">>
plugin == <<"p", "l", "u", "g", "i", "n">>

\* CategoryValidator.core_categories
core_categories == {general, system, plugin}

Lower == {"a", "b", "c", "d", "e", "f", "g", "h", "i", "j", "k", "l", "m",
          "n", "o", "p", "q", "r", "s", "t", "u", "v", "w", "x", "y", "z"}
Digit == {"0", "1", "2", "3", "4", "5", "6", "7", "8", "9"}

\* CategoryValidator.validate_category_name: re.match of ^[a-z][a-z0-9_-]*$
\* ($ also matches before a newline that ends the string).
validate_category_name(name) ==
    LET body == IF Len(name) > 0 /\ name[Len(name)] = "\n"
                THEN SubSeq(name, 1, Len(name) - 1) ELSE name
    IN /\ Len(body) > 0
       /\ body[1] \in Lower
       /\ \A i \in 2..Len(body) : body[i] \in Lower \cup Digit \cup {"_", "-"}

\* The plugin classes discovery can hand to load_plugin: the name, the
\* dependencies and the get_commands() keys of their instances.
CorePlugin == [cls |-> "CorePlugin", name |-> "core", dependencies |-> <<>>,
               commands |-> <<"status">>]
ExtPlugin == [cls |-> "ExtPlugin", name |-> "ext", dependencies |-> <<"core">>,
              commands |-> <<"deploy", "rollback">>]
ToolsPlugin == [cls |-> "ToolsPlugin", name |-> "tools",
                dependencies |-> <<"core", "ext">>,
                commands |-> <<"build", "status">>]
AnonPlugin == [cls |-> "AnonPlugin", name |-> "", dependencies |-> <<>>,
               commands |-> <<>>]
PluginClasses == {CorePlugin, ExtPlugin, ToolsPlugin, AnonPlugin}
PluginNames == {c.name : c \in PluginClasses} \ {""}
CommandNames == {"status", "deploy", "rollback", "build"}

\* The names the model passes to PluginRegistry.register_command.
RegisteredDirectly == {"status", "deploy"}

\* type(self.plugins[name])
ClassOf(name) == CHOOSE c \in PluginClasses : c.name = name

Range(seq) == {seq[i] : i \in 1..Len(seq)}

\* list.remove(x): the first occurrence goes.
Remove(seq, x) ==
    IF x \notin Range(seq) THEN seq
    ELSE LET i == CHOOSE k \in 1..Len(seq) :
                    seq[k] = x /\ \A j \in 1..(k - 1) : seq[j] # x
         IN SubSeq(seq, 1, i - 1) \o SubSeq(seq, i + 1, Len(seq))

\* [x for x in seq if x in keep]
Filter(seq, keep) == SelectSeq(seq, LAMBDA x : x \in keep)

\* Exceptions of the plugin subsystem: the type, the message and the names
\* the message lists.
PluginException(type, text, names) == [type |-> type, text |-> text, names |-> names]
NoError == PluginException("None", "", <<>>)
PluginError(text, names) == PluginException("PluginError", text, names)
CommandError(name) == PluginException("CommandError", "is already registered", <<name>>)
HandlerError == PluginException("EventError", "Error in event handler", <<>>)

NoCall == [op |-> "none", arg |-> "", outcome |-> "none", exc |-> NoError,
           hookCalled |-> FALSE, hookRaises |-> FALSE, handlerRaises |-> FALSE,
           emitted |-> {}, reported |-> FALSE, category |-> <<>>,
           instance |-> FALSE, found |-> FALSE]

PluginInitVars ==
    /\ plugins = <<>>
    /\ load_order = <<>>
    /\ initialized = {}
    /\ plugin_commands = {}
    /\ command_categories = [c \in {"core", "plugin", "admin"} |-> <<>>]
    /\ registry_commands = {}
    /\ registry_categories = [c \in core_categories |-> <<>>]
    /\ registry_instances = {}
    /\ extended_categories = {}
    /\ shell_commands = {}
    /\ shell_attrs = {}
    /\ call = NoCall

\* The state of the three components, as a value the operations transform.
State ==
    [plugins |-> plugins, load_order |-> load_order, initialized |-> initialized,
     plugin_commands |-> plugin_commands,
     command_categories |-> command_categories,
     registry_commands |-> registry_commands,
     registry_categories |-> registry_categories,
     registry_instances |-> registry_instances,
     extended_categories |-> extended_categories,
     shell_commands |-> shell_commands, shell_attrs |-> shell_attrs]

SetState(S) ==
    /\ plugins' = S.plugins
    /\ load_order' = S.load_order
    /\ initialized' = S.initialized
    /\ plugin_commands' = S.plugin_commands
    /\ command_categories' = S.command_categories
    /\ registry_commands' = S.registry_commands
    /\ registry_categories' = S.registry_categories
    /\ registry_instances' = S.registry_instances
    /\ extended_categories' = S.extended_categories
    /\ shell_commands' = S.shell_commands
    /\ shell_attrs' = S.shell_attrs

\* CategoryValidator.is_valid_category
is_valid_category(S, category) ==
    category \in core_categories \/ category \in S.extended_categories

\* CategoryValidator.get_all_categories
get_all_categories(S) == core_categories \cup S.extended_categories

\* CommandRegistry.add_category without the test of the validator's answer
\* (line 81): the category gets its list also when the name is rejected.
add_category_always_lists(S, category) ==
    [S EXCEPT
        !.extended_categories =
            IF validate_category_name(category) THEN @ \cup {category} ELSE @,
        !.registry_categories =
            IF category \in DOMAIN @ THEN @
            ELSE [c \in DOMAIN @ \cup {category} |->
                    IF c = category THEN <<>> ELSE @[c]]]

\* CommandRegistry.add_category
add_category(S, category) ==
    IF validate_category_name(category)
    THEN [S EXCEPT
            !.extended_categories = @ \cup {category},
            !.registry_categories =
                IF category \in DOMAIN @ THEN @
                ELSE [c \in DOMAIN @ \cup {category} |->
                        IF c = category THEN <<>> ELSE @[c]]]
    ELSE S

\* CommandRegistry.register with the check for a registered name moved after
\* the category handling.
registry_register_late_check(S, name, category, instance) ==
    LET S1 == IF ~is_valid_category(S, category) /\ validate_category_name(category)
              THEN add_category(S, category) ELSE S
    IN IF name \in S.registry_commands
       THEN [S |-> S1, exc |-> CommandError(name)]
       ELSE [S |-> [S1 EXCEPT !.registry_commands = @ \cup {name}], exc |-> NoError]

\* CommandRegistry.register(name, command_class, category, instance): the
\* state it leaves and the exception it raises.
registry_register(S, name, category, instance) ==
    IF name \in S.registry_commands
    THEN [S |-> S, exc |-> CommandError(name)]
    ELSE
    LET S1 == IF ~is_valid_category(S, category) /\ validate_category_name(category)
              THEN add_category(S, category) ELSE S
        cat == IF ~is_valid_category(S, category) /\ ~validate_category_name(category)
               THEN general ELSE category
        cats == IF cat \in DOMAIN S1.registry_categories
                THEN S1.registry_categories
                ELSE [c \in DOMAIN S1.registry_categories \cup {cat} |->
                        IF c = cat THEN <<>> ELSE S1.registry_categories[c]]
    IN [S |-> [S1 EXCEPT
                !.registry_commands = @ \cup {name},
                !.registry_categories = [cats EXCEPT ![cat] = Append(@, name)],
                !.registry_instances = IF instance THEN @ \cup {name} ELSE @],
        exc |-> NoError]

\* CommandRegistry.unregister without lines 94-95: the instance stays.
registry_unregister_keeps_instance(S, name) ==
    IF name \in S.registry_commands
    THEN [S EXCEPT
            !.registry_commands = @ \ {name},
            !.registry_categories =
                [c \in DOMAIN @ |-> Remove(@[c], name)]]
    ELSE S

\* CommandRegistry.unregister(name)
registry_unregister(S, name) ==
    IF name \in S.registry_commands
    THEN [S EXCEPT
            !.registry_commands = @ \ {name},
            !.registry_instances = @ \ {name},
            !.registry_categories =
                [c \in DOMAIN @ |-> Remove(@[c], name)]]
    ELSE S

\* register_plugin_command without line 252: the instance is not stored in
\* the command table.
register_plugin_command_unbound(S, name) ==
    LET r == registry_register(S, name, plugin, TRUE) IN
    IF r.exc # NoError THEN r
    ELSE [S |-> [r.S EXCEPT !.shell_attrs = @ \cup {name}], exc |-> NoError]

\* ChuiCLI.register_plugin_command(name, command_class): the state it leaves
\* and the exception it re-raises.
register_plugin_command(S, name) ==
    LET r == registry_register(S, name, plugin, TRUE) IN
    IF r.exc # NoError THEN r
    ELSE [S |-> [r.S EXCEPT !.shell_attrs = @ \cup {name},
                            !.shell_commands = @ \cup {name}],
          exc |-> NoError]

\* ChuiCLI.unregister_command(name)
unregister_command(S, name) ==
    IF name \in S.shell_commands
    THEN [S EXCEPT !.shell_attrs = @ \ {name}, !.shell_commands = @ \ {name}]
    ELSE S

\* ChuiCLI.get_command(name) is not None
get_command(S, name) == name \in S.shell_commands

\* load_plugin, lines 157-162: the commands are registered one after the
\* other, up to the first that raises.
RECURSIVE RegisterCommands(_, _)
RegisterCommands(S, names) ==
    IF names = <<>> THEN [S |-> S, exc |-> NoError]
    ELSE LET r == register_plugin_command(S, Head(names)) IN
         IF r.exc # NoError THEN r ELSE RegisterCommands(r.S, Tail(names))

\* How a call ended: the state it leaves and what the caller sees.
Ended(S, outcome, e, hookCalled, events) ==
    [S |-> S, outcome |-> outcome, exc |-> e, hookCalled |-> hookCalled,
     emitted |-> events, reported |-> FALSE]

\* The dependency check without its condition: every dependency is listed.
missing_deps_all(S, cls) == cls.dependencies

\* load_plugin, lines 143-144:
\* [dep for dep in plugin.dependencies if dep not in self.plugins]
missing_deps(S, cls) ==
    Filter(cls.dependencies, Range(cls.dependencies) \ Range(S.plugins))

\* Plugin.initialize with its except clause dropped: a failing _initialize()
\* is not turned into an error.
initialize_swallows(cls, initRaises) == NoError

\* Plugin.initialize(): the exception it raises. An exception of
\* _initialize() is raised again as a PluginError that names the plugin.
initialize(cls, initRaises) ==
    IF initRaises THEN PluginError("Failed to initialize plugin", <<cls.name>>)
    ELSE NoError

\* PluginRegistry.load_plugin(plugin_class). initRaises: the plugin's
\* _initialize() raises; handlerRaises: a subscriber of plugin_loaded raises.
\* Every exception is handed to error_handler.handle and raised again.
load_plugin(S, cls, initRaises, handlerRaises) ==
    IF cls.name = ""
    THEN Ended(S, "raised", PluginError("Plugin must have a name", <<>>), FALSE, {})
    ELSE IF cls.name \in Range(S.plugins)
    THEN Ended(S, "raised", PluginError("is already loaded", <<cls.name>>), FALSE, {})
    ELSE IF missing_deps(S, cls) # <<>>
    THEN Ended(S, "raised", PluginError("Missing dependencies", missing_deps(S, cls)),
               FALSE, {})
    ELSE IF initialize(cls, initRaises) # NoError
    THEN Ended(S, "raised", initialize(cls, initRaises), TRUE, {})
    ELSE
    LET S1 == [S EXCEPT !.initialized = @ \cup {cls.name},
                        !.plugins = Append(@, cls.name),
                        !.load_order = Append(@, cls.name)]
        r == RegisterCommands(S1, cls.commands)
    IN
    IF r.exc # NoError
    THEN Ended(r.S, "raised", r.exc, TRUE, {})
    ELSE IF handlerRaises
    THEN Ended(r.S, "raised", HandlerError, TRUE, {"plugin_loaded"})
    ELSE Ended(r.S, "returned", NoError, TRUE, {"plugin_loaded"})

\* unload_plugin without its check for dependent plugins.
dependents_none(S, name) == <<>>

\* unload_plugin, lines 245-246:
\* [p.name for p in self.plugins.values() if name in p.dependencies]
dependents(S, name) ==
    SelectSeq(S.plugins, LAMBDA p : name \in Range(ClassOf(p).dependencies))

\* Plugin.cleanup with its except clause dropped: the exception of _cleanup()
\* leaves cleanup().
plugin_cleanup_raises(cleanupRaises) ==
    [reported |-> FALSE,
     exc |-> IF cleanupRaises
             THEN PluginException("Exception", "cleanup failed", <<>>)
             ELSE NoError]

\* Plugin.cleanup(): an exception of _cleanup() is reported with ui.error and
\* not raised.
plugin_cleanup(cleanupRaises) == [reported |-> cleanupRaises, exc |-> NoError]

\* PluginRegistry.unload_plugin(name). cleanupRaises: the plugin's _cleanup()
\* raises; handlerRaises: a subscriber of plugin_unloaded raises. Every
\* exception is handed to error_handler.handle and the call returns.
unload_plugin(S, name, cleanupRaises, handlerRaises) ==
    IF name \notin Range(S.plugins)
    THEN Ended(S, "returned", PluginError("is not loaded", <<name>>), FALSE, {})
    ELSE IF dependents(S, name) # <<>>
    THEN Ended(S, "returned",
               PluginError("Cannot unload, required by", dependents(S, name)),
               FALSE, {})
    ELSE
    LET owned == S.plugin_commands \cap Range(ClassOf(name).commands)
        S1 == [S EXCEPT
                !.plugin_commands = @ \ owned,
                !.command_categories =
                    [c \in DOMAIN @ |-> Filter(@[c], Range(@[c]) \ owned)]]
        c == plugin_cleanup(cleanupRaises)
        S2 == [S1 EXCEPT
                !.initialized = @ \ {name},
                !.plugins = Remove(@, name),
                !.load_order = Remove(@, name)]
    IN
    IF c.exc # NoError
    THEN Ended(S1, "returned", c.exc, TRUE, {})
    ELSE [Ended(S2, "returned", IF handlerRaises THEN HandlerError ELSE NoError,
                TRUE, {"plugin_unloaded"})
            EXCEPT !.reported = c.reported]

\* PluginRegistry.reload_plugin(name): the check of line 291 raises to the
\* caller; then unload_plugin(name) and load_plugin(type(self.plugins[name])).
\* unloadRaises and loadRaises: a subscriber of plugin_unloaded, of
\* plugin_loaded, raises.
reload_plugin(S, name, cleanupRaises, unloadRaises, initRaises, loadRaises) ==
    IF name \notin Range(S.plugins)
    THEN Ended(S, "raised", PluginError("is not loaded", <<name>>), FALSE, {})
    ELSE
    LET u == unload_plugin(S, name, cleanupRaises, unloadRaises)
        l == load_plugin(u.S, ClassOf(name), initRaises, loadRaises)
    IN [l EXCEPT !.emitted = u.emitted \cup @, !.reported = u.reported]

\* PluginRegistry.cleanup(): unload_plugin for each name of
\* list(self.plugins.keys()), in that order. raisingCleanups and
\* raisingHandlers are the plugins whose _cleanup() raises and whose
\* plugin_unloaded event meets a raising subscriber. The exception kept is
\* the first one that an unload_plugin handed to error_handler.handle.
RECURSIVE cleanup_from(_, _, _, _)
cleanup_from(r, names, raisingCleanups, raisingHandlers) ==
    IF names = <<>> THEN r
    ELSE LET u == unload_plugin(r.S, Head(names), Head(names) \in raisingCleanups,
                                Head(names) \in raisingHandlers)
         IN cleanup_from(
                [S |-> u.S, outcome |-> "returned",
                 exc |-> IF r.exc # NoError THEN r.exc ELSE u.exc,
                 hookCalled |-> r.hookCalled \/ u.hookCalled,
                 emitted |-> r.emitted \cup u.emitted,
                 reported |-> r.reported \/ u.reported],
                Tail(names), raisingCleanups, raisingHandlers)

cleanup(S, raisingCleanups, raisingHandlers) ==
    cleanup_from(Ended(S, "returned", NoError, FALSE, {}), S.plugins,
                 raisingCleanups, raisingHandlers)

\* PluginRegistry.register_command(name, command_instance, category): an
\* already registered name is reported to error_handler.handle, not raised.
register_command(S, name, category) ==
    IF name \in S.plugin_commands THEN S
    ELSE [S EXCEPT
            !.plugin_commands = @ \cup {name},
            !.command_categories =
                IF category \in DOMAIN @
                THEN [@ EXCEPT ![category] = Append(@, name)]
                ELSE [c \in DOMAIN @ \cup {category} |->
                        IF c = category THEN <<name>> ELSE @[c]]]

Called(op, arg, r, hookRaises, handlerRaises) ==
    [NoCall EXCEPT !.op = op, !.arg = arg, !.outcome = r.outcome, !.exc = r.exc,
                   !.hookCalled = r.hookCalled, !.hookRaises = hookRaises,
                   !.handlerRaises = handlerRaises, !.emitted = r.emitted,
                   !.reported = r.reported]

LoadPlugin(cls) ==
    \E initRaises, handlerRaises \in BOOLEAN :
        LET r == load_plugin(State, cls, initRaises, handlerRaises) IN
        /\ SetState(r.S)
        /\ UNCHANGED <<pipelineVars, eventVars>>
        /\ call' = Called("load_plugin", cls.name, r, initRaises, handlerRaises)

UnloadPlugin(name) ==
    \E cleanupRaises, handlerRaises \in BOOLEAN :
        LET r == unload_plugin(State, name, cleanupRaises, handlerRaises) IN
        /\ SetState(r.S)
        /\ UNCHANGED <<pipelineVars, eventVars>>
        /\ call' = Called("unload_plugin", name, r, cleanupRaises, handlerRaises)

ReloadPlugin(name) ==
    \E cleanupRaises, unloadHandlerRaises, initRaises, loadHandlerRaises \in BOOLEAN :
        LET r == reload_plugin(State, name, cleanupRaises, unloadHandlerRaises,
                               initRaises, loadHandlerRaises)
        IN
        /\ SetState(r.S)
        /\ UNCHANGED <<pipelineVars, eventVars>>
        /\ call' = Called("reload_plugin", name, r, initRaises,
                          unloadHandlerRaises \/ loadHandlerRaises)

Cleanup ==
    \E raisingCleanups, raisingHandlers \in SUBSET Range(plugins) :
        LET r == cleanup(State, raisingCleanups, raisingHandlers) IN
        /\ SetState(r.S)
        /\ UNCHANGED <<pipelineVars, eventVars>>
        /\ call' = Called("cleanup", "", r, raisingCleanups # {},
                          raisingHandlers # {})

RegisterCommand(name) ==
    /\ SetState(register_command(State, name, "plugin"))
    /\ call' = [NoCall EXCEPT !.op = "register_command", !.arg = name,
                              !.outcome = "returned"]
    /\ UNCHANGED <<pipelineVars, eventVars>>

(***************************************************************************)
(* EventManager                                                            *)
(***************************************************************************)

\* The callables that are subscribed, the names of the events that are
\* emitted, and the ids uuid4() returns.
Handlers == {"h1", "h2"}
EventNames == {"a", "b"}
Wildcard == "*"
OperationIds == {"op1"}

\* Event.operation_id of an event that belongs to no operation (None)
NoOperation == ""

\* What a handler does when it is called: it returns, it raises, or it
\* unsubscribes itself from the list it is being called from and returns.
Behaviours == {"returns", "raises", "unsubscribes"}

\* The values of Event.timestamp, and of the argument of cleanup_completed.
Timestamps == {1, 2}

\* Event(name, data, timestamp, operation_id)
Event(name, operation_id, timestamp) ==
    [name |-> name, operation_id |-> operation_id, timestamp |-> timestamp]

\* OperationContext.add_event: the entry appended to the timeline.
TimelineEntry(event) == [timestamp |-> event.timestamp, name |-> event.name]

\* OperationContext: status, events and end_time.
OperationContext(status, events, end_time) ==
    [status |-> status, events |-> events, end_time |-> end_time]

\* An exception of the EventManager: its type and message, and for a
\* ChuiError the attribute original_error and the entry context['event_type']
\* ("" when it has none).
BusException(type, text, event_type, original_error) ==
    [type |-> type, text |-> text, event_type |-> event_type,
     original_error |-> original_error]
NoBusError == BusException("None", "", "", "")

\* The exception a handler raises is named after the handler.
HandlerException(handler) == handler

\* EventError(f"Error in event handler: {str(e)}", e): the second positional
\* parameter of EventError is event_type, so e becomes context['event_type']
\* and original_error keeps its default.
HandlerEventError(e) == BusException("EventError", "Error in event handler", e, "")
WildcardEventError(e) == BusException("EventError", "Error in wildcard handler", e, "")

\* A call on the EventManager: for emit, the event, the handlers called, in
\* order, and what each of them did.
NoBusCall == [op |-> "none", event |-> Event("", NoOperation, 0),
              log |-> <<>>, outcome |-> "none", exc |-> NoBusError,
              behaviour |-> [h \in Handlers |-> "returns"], status |-> ""]

EventInitVars ==
    /\ handlers = <<>>
    /\ wildcard_handlers = <<>>
    /\ active_operations = <<>>
    /\ completed_operations = <<>>
    /\ subscriptions = <<>>
    /\ operation_ids = {}
    /\ busCall = NoBusCall

\* d[k] = v for a dict d
Put(d, k, v) == [x \in DOMAIN d \cup {k} |-> IF x = k THEN v ELSE d[x]]

\* subscribe with insert(0, handler) in place of append(handler).
subscribe_first(hs, wild, event_name, handler) ==
    IF event_name = Wildcard
    THEN [handlers |-> hs, wildcard_handlers |-> <<handler>> \o wild]
    ELSE [handlers |->
            Put(hs, event_name,
                <<handler>> \o (IF event_name \in DOMAIN hs THEN hs[event_name]
                                ELSE <<>>)),
          wildcard_handlers |-> wild]

\* EventManager.subscribe(event_name, handler)
subscribe(hs, wild, event_name, handler) ==
    IF event_name = Wildcard
    THEN [handlers |-> hs, wildcard_handlers |-> Append(wild, handler)]
    ELSE [handlers |->
            Put(hs, event_name,
                Append(IF event_name \in DOMAIN hs THEN hs[event_name] ELSE <<>>,
                       handler)),
          wildcard_handlers |-> wild]

\* EventManager.unsubscribe(event_name, handler): the lists it leaves and the
\* exception of dict lookup or list.remove.
unsubscribe(hs, wild, event_name, handler) ==
    IF event_name = Wildcard
    THEN IF handler \in Range(wild)
         THEN [handlers |-> hs, wildcard_handlers |-> Remove(wild, handler),
               exc |-> NoBusError]
         ELSE [handlers |-> hs, wildcard_handlers |-> wild,
               exc |-> BusException("ValueError", "", "", "")]
    ELSE IF event_name \notin DOMAIN hs
    THEN [handlers |-> hs, wildcard_handlers |-> wild,
          exc |-> BusException("KeyError", "", "", "")]
    ELSE IF handler \notin Range(hs[event_name])
    THEN [handlers |-> hs, wildcard_handlers |-> wild,
          exc |-> BusException("ValueError", "", "", "")]
    ELSE [handlers |-> Put(hs, event_name, Remove(hs[event_name], handler)),
          wildcard_handlers |-> wild, exc |-> NoBusError]

\* The subscriptions in force after unsubscribe(event_name, handler): the
\* oldest subscription of handler to event_name goes.
Unsubscribed(subs, event_name, handler) == Remove(subs, <<event_name, handler>>)

\* emit, lines 81-85 and 88-92: handler(event) in a try statement that turns
\* an exception into an EventError.
call_handler(handler, behaviour, wildcard) ==
    IF behaviour[handler] = "raises"
    THEN IF wildcard THEN WildcardEventError(HandlerException(handler))
         ELSE HandlerEventError(HandlerException(handler))
    ELSE NoBusError

\* One `for handler in <list>` loop of emit over the list stored under key
\* (an event name or the wildcard), from position i. A handler that
\* unsubscribes changes the list the loop is walking. The result has the
\* lists, the subscriptions, the handlers called so far and the exception
\* that ended the loop.
RECURSIVE dispatch(_, _, _, _)
dispatch(d, key, i, behaviour) ==
    LET list == IF key = Wildcard THEN d.wildcard_handlers
                ELSE IF key \in DOMAIN d.handlers THEN d.handlers[key] ELSE <<>>
    IN
    IF i > Len(list) THEN d
    ELSE
    LET handler == list[i]
        e == call_handler(handler, behaviour, key = Wildcard)
        called == [d EXCEPT !.log = Append(@, handler)]
    IN
    IF e # NoBusError THEN [called EXCEPT !.exc = e]
    ELSE IF behaviour[handler] = "unsubscribes"
    THEN LET u == unsubscribe(d.handlers, d.wildcard_handlers, key, handler) IN
         dispatch([called EXCEPT
                     !.handlers = u.handlers,
                     !.wildcard_handlers = u.wildcard_handlers,
                     !.subscriptions = Unsubscribed(@, key, handler)],
                  key, i + 1, behaviour)
    ELSE dispatch(called, key, i + 1, behaviour)

\* EventManager.emit(event), lines 80-92: the exact-name loop, then the
\* wildcard loop unless the first one raised.
emit(hs, wild, subs, event, behaviour) ==
    LET d0 == [handlers |-> hs, wildcard_handlers |-> wild,
               subscriptions |-> subs, log |-> <<>>, exc |-> NoBusError]
        d1 == dispatch(d0, event.name, 1, behaviour)
    IN IF d1.exc # NoBusError THEN d1 ELSE dispatch(d1, Wildcard, 1, behaviour)

\* subscribe(event_name, handler)
Subscribe(event_name, handler) ==
    /\ Len(subscriptions) < MaxSubscriptions
    /\ LET r == subscribe(handlers, wildcard_handlers, event_name, handler) IN
       /\ handlers' = r.handlers
       /\ wildcard_handlers' = r.wildcard_handlers
    /\ subscriptions' = Append(subscriptions, <<event_name, handler>>)
    /\ busCall' = [NoBusCall EXCEPT !.op = "subscribe", !.outcome = "returned"]
    /\ UNCHANGED <<active_operations, completed_operations, operation_ids>>
    /\ UNCHANGED <<pipelineVars, pluginVars>>

\* unsubscribe(event_name, handler)
Unsubscribe(event_name, handler) ==
    /\ LET r == unsubscribe(handlers, wildcard_handlers, event_name, handler) IN
       /\ handlers' = r.handlers
       /\ wildcard_handlers' = r.wildcard_handlers
       /\ subscriptions' = IF r.exc = NoBusError
                           THEN Unsubscribed(subscriptions, event_name, handler)
                           ELSE subscriptions
       /\ busCall' = [NoBusCall EXCEPT
                        !.op = "unsubscribe",
                        !.outcome = IF r.exc = NoBusError THEN "returned"
                                    ELSE "raised",
                        !.exc = r.exc]
    /\ UNCHANGED <<active_operations, completed_operations, operation_ids>>
    /\ UNCHANGED <<pipelineVars, pluginVars>>

\* emit(event): line 77-78 adds the event to the timeline of its operation
\* when that is active, then the handlers are called.
Emit(event) ==
    /\ event.operation_id \in DOMAIN active_operations =>
        Len(active_operations[event.operation_id].events) < MaxTimeline
    /\ \E behaviour \in [Handlers -> Behaviours] :
        \E r \in {emit(handlers, wildcard_handlers, subscriptions, event, behaviour)} :
        /\ handlers' = r.handlers
        /\ wildcard_handlers' = r.wildcard_handlers
        /\ subscriptions' = r.subscriptions
        /\ busCall' = [NoBusCall EXCEPT
                         !.op = "emit", !.event = event, !.log = r.log,
                         !.outcome = IF r.exc = NoBusError THEN "returned"
                                     ELSE "raised",
                         !.exc = r.exc,
                         !.behaviour = [h \in Handlers |->
                                          IF h \in Range(r.log) THEN behaviour[h]
                                          ELSE "returns"]]
    /\ active_operations' =
        IF event.operation_id # NoOperation /\ event.operation_id \in DOMAIN active_operations
        THEN [active_operations EXCEPT
                ![event.operation_id].events = Append(@, TimelineEntry(event))]
        ELSE active_operations
    /\ UNCHANGED <<completed_operations, operation_ids>>
    /\ UNCHANGED <<pipelineVars, pluginVars>>

\* start_operation(operation_type, metadata): uuid4() is an id not used yet.
StartOperation(operation_id) ==
    /\ operation_id \notin operation_ids
    /\ operation_ids' = operation_ids \cup {operation_id}
    /\ active_operations' =
        Put(active_operations, operation_id,
            OperationContext("in_progress", <<>>, None))
    /\ busCall' = [NoBusCall EXCEPT !.op = "start_operation",
                                    !.outcome = "returned"]
    /\ UNCHANGED <<handlers, wildcard_handlers, completed_operations, subscriptions>>
    /\ UNCHANGED <<pipelineVars, pluginVars>>

EventInit == PipelineInitVars /\ PluginInitVars /\ EventInitVars

EventNext ==
    \/ \E event_name \in EventNames \cup {Wildcard}, handler \in Handlers :
        Subscribe(event_name, handler)
    \/ \E event_name \in EventNames \cup {Wildcard}, handler \in Handlers :
        Unsubscribe(event_name, handler)
    \/ \E name \in EventNames, operation_id \in OperationIds \cup {NoOperation} :
        Emit(Event(name, operation_id, clock))
    \/ \E operation_id \in OperationIds : StartOperation(operation_id)

EventSpec == EventInit /\ [][EventNext]_vars

(***************************************************************************)
(* EventManager: operations                                                *)
(***************************************************************************)

\* del d[k]
Del(d, k) == [x \in DOMAIN d \ {k} |-> d[x]]

\* complete_operation without the pop: the context stays in the active
\* store as well.
complete_operation_keeps_active(active, completed, operation_id, status, now) ==
    IF operation_id \notin DOMAIN active
    THEN [active |-> active, completed |-> completed,
          exc |-> BusException("ValueError", "No active operation found", "", "")]
    ELSE [active |-> active,
          completed |-> Put(completed, operation_id,
                            [active[operation_id] EXCEPT
                                !.status = status, !.end_time = Some(now)]),
          exc |-> NoBusError]

\* EventManager.complete_operation(operation_id, status, error): the two
\* stores it leaves and the exception it raises. now is datetime.now().
complete_operation(active, completed, operation_id, status, now) ==
    IF operation_id \notin DOMAIN active
    THEN [active |-> active, completed |-> completed,
          exc |-> BusException("ValueError", "No active operation found", "", "")]
    ELSE [active |-> Del(active, operation_id),
          completed |-> Put(completed, operation_id,
                            [active[operation_id] EXCEPT
                                !.status = status, !.end_time = Some(now)]),
          exc |-> NoBusError]

\* EventManager.cleanup_completed(before): before is None or Some(time).
cleanup_completed(completed, before) ==
    IF before = None THEN completed
    ELSE LET to_remove == {op_id \in DOMAIN completed :
                            /\ completed[op_id].end_time # None
                            /\ completed[op_id].end_time[1] < before[1]}
         IN [op_id \in DOMAIN completed \ to_remove |-> completed[op_id]]

\* sorted(events, key=lambda e: e["timestamp"]): the sort is stable.
RECURSIVE sorted_by_timestamp(_)
sorted_by_timestamp(events) ==
    IF events = <<>> THEN <<>>
    ELSE LET n == Len(events)
             e == events[n]
             front == sorted_by_timestamp(SubSeq(events, 1, n - 1))
             k == Cardinality({i \in 1..Len(front) :
                                front[i].timestamp <= e.timestamp})
         IN SubSeq(front, 1, k) \o <<e>> \o SubSeq(front, k + 1, Len(front))

\* EventManager.get_operation_status(operation_id): a context, or None.
get_operation_status(active, completed, operation_id) ==
    IF operation_id \in DOMAIN active THEN Some(active[operation_id])
    ELSE IF operation_id \in DOMAIN completed THEN Some(completed[operation_id])
    ELSE None

\* get_operation_timeline that returns the events as they were appended.
get_operation_timeline_unsorted(active, completed, operation_id) ==
    LET c == get_operation_status(active, completed, operation_id) IN
    IF c = None THEN <<>> ELSE c[1].events

\* EventManager.get_operation_timeline(operation_id)
get_operation_timeline(active, completed, operation_id) ==
    LET c == get_operation_status(active, completed, operation_id) IN
    IF c = None THEN <<>> ELSE sorted_by_timestamp(c[1].events)

\* complete_operation(operation_id, status)
CompleteOperation(operation_id, status) ==
    /\ \E r \in {complete_operation(active_operations, completed_operations,
                                     operation_id, status, clock)} :
        /\ active_operations' = r.active
        /\ completed_operations' = r.completed
        /\ busCall' = [NoBusCall EXCEPT
                         !.op = "complete_operation",
                         !.event = Event("", operation_id, 0),
                         !.status = status,
                         !.outcome = IF r.exc = NoBusError THEN "returned"
                                     ELSE "raised",
                         !.exc = r.exc]
    /\ UNCHANGED <<handlers, wildcard_handlers, subscriptions, operation_ids>>
    /\ UNCHANGED <<pipelineVars, pluginVars>>

\* cleanup_completed(before)
CleanupCompleted(before) ==
    /\ completed_operations' = cleanup_completed(completed_operations, before)
    /\ busCall' = [NoBusCall EXCEPT !.op = "cleanup_completed",
                                    !.outcome = "returned"]
    /\ UNCHANGED <<handlers, wildcard_handlers, active_operations,
                   subscriptions, operation_ids>>
    /\ UNCHANGED <<pipelineVars, pluginVars>>

OperationInit == PipelineInitVars /\ PluginInitVars /\ EventInitVars

OperationNext ==
    \/ \E operation_id \in OperationIds : StartOperation(operation_id)
    \/ \E name \in EventNames, operation_id \in OperationIds \cup {NoOperation},
          timestamp \in Timestamps :
        Emit(Event(name, operation_id, timestamp))
    \/ \E operation_id \in OperationIds, status \in {"completed", "failed"} :
        CompleteOperation(operation_id, status)
    \/ \E before \in {None} \cup {Some(t) : t \in {0} \cup Timestamps} :
        CleanupCompleted(before)

OperationSpec == OperationInit /\ [][OperationNext]_vars

(***************************************************************************)
(* Specifications                                                          *)
(***************************************************************************)
PluginInit == PipelineInitVars /\ PluginInitVars /\ EventInitVars

PluginNext ==
    \/ \E cls \in PluginClasses : LoadPlugin(cls)
    \/ \E name \in PluginNames : UnloadPlugin(name)
    \/ \E name \in PluginNames : ReloadPlugin(name)
    \/ Cleanup
    \/ \E name \in RegisteredDirectly : RegisterCommand(name)

PluginSpec == PluginInit /\ [][PluginNext]_vars

(***************************************************************************)
(* Startup loading: PluginRegistry._load_enabled_plugins, which __init__   *)
(* calls once the stores are empty                                         *)
(***************************************************************************)

\* The sequences without repetition over a set: the orders in which
\* iterdir() can list plugin directories, and the lists a configuration holds.
Orders(S) ==
    {o \in UNION {[1..n -> S] : n \in 0..Cardinality(S)} :
        \A i, j \in DOMAIN o : i # j => o[i] # o[j]}

\* The plugin classes a plugins directory holds.
DiscoverableClasses == {CorePlugin, ExtPlugin, ToolsPlugin}

\* The object getattr(plugin_class, 'name', ...) gives for a class that
\* declares name as a property, as Plugin does: it equals no string.
PropertyObject(cls) == cls.cls

\* discover_plugins, line 109: the key a class is filed under. The default
\* plugin_dir.name is never used, since Plugin has the attribute name.
discover_key(cls, nameIsProperty) ==
    IF nameIsProperty THEN PropertyObject(cls) ELSE cls.name

\* discover_plugins(): the dict it returns, in insertion order. order lists
\* the classes as the directory scan finds them, properties holds the names
\* of the classes that declare name as a property.
discover_plugins(order, properties) ==
    [i \in 1..Len(order) |->
        [key |-> discover_key(order[i], order[i].name \in properties),
         cls |-> order[i]]]

\* What a load_plugin attempt leaves in the record of the startup.
Attempt(cls, r) == [name |-> cls.name, outcome |-> r.outcome]

\* The auto-load loop with a loop that ends at the first failing plugin.
RECURSIVE load_available_stops(_, _, _, _, _)
load_available_stops(S, available, disabled, raisingInits, attempts) ==
    IF available = <<>> THEN [S |-> S, attempts |-> attempts, exc |-> NoError]
    ELSE LET entry == Head(available) IN
         IF entry.key \in disabled
         THEN load_available_stops(S, Tail(available), disabled, raisingInits, attempts)
         ELSE LET r == load_plugin(S, entry.cls, entry.cls.name \in raisingInits, FALSE)
                  done == Append(attempts, Attempt(entry.cls, r))
              IN IF r.outcome = "raised"
                 THEN [S |-> r.S, attempts |-> done, exc |-> NoError]
                 ELSE load_available_stops(r.S, Tail(available), disabled,
                                           raisingInits, done)

\* _load_enabled_plugins, lines 92-107: the loop over the discovered
\* plugins when auto_load is set. An exception of load_plugin is reported
\* with ui.error and the loop goes on.
RECURSIVE load_available(_, _, _, _, _)
load_available(S, available, disabled, raisingInits, attempts) ==
    IF available = <<>> THEN [S |-> S, attempts |-> attempts, exc |-> NoError]
    ELSE LET entry == Head(available) IN
         IF entry.key \in disabled
         THEN load_available(S, Tail(available), disabled, raisingInits, attempts)
         ELSE LET r == load_plugin(S, entry.cls, entry.cls.name \in raisingInits, FALSE)
              IN load_available(r.S, Tail(available), disabled, raisingInits,
                                Append(attempts, Attempt(entry.cls, r)))

\* _load_enabled_plugins, lines 112-116: the loop over the enabled names
\* when auto_load is off. There is no try around load_plugin here: its
\* exception ends the loop.
RECURSIVE load_enabled(_, _, _, _, _, _)
load_enabled(S, enabled, available, disabled, raisingInits, attempts) ==
    IF enabled = <<>> THEN [S |-> S, attempts |-> attempts, exc |-> NoError]
    ELSE LET plugin_name == Head(enabled)
             found == {i \in DOMAIN available : available[i].key = plugin_name}
         IN
         IF found = {} \/ plugin_name \in disabled
         THEN load_enabled(S, Tail(enabled), available, disabled, raisingInits, attempts)
         ELSE LET cls == available[CHOOSE i \in found : TRUE].cls
                  r == load_plugin(S, cls, cls.name \in raisingInits, FALSE)
                  done == Append(attempts, Attempt(cls, r))
              IN IF r.outcome = "raised"
                 THEN [S |-> r.S, attempts |-> done, exc |-> r.exc]
                 ELSE load_enabled(r.S, Tail(enabled), available, disabled,
                                   raisingInits, done)

\* PluginRegistry._load_enabled_plugins(): the state it leaves, the
\* load_plugin calls it made, and the exception its outer handler handed to
\* error_handler.handle. It never raises.
load_enabled_plugins(S, auto_load, enabled, disabled, available, raisingInits) ==
    IF auto_load
    THEN load_available(S, available, disabled, raisingInits, <<>>)
    ELSE load_enabled(S, enabled, available, disabled, raisingInits, <<>>)

\* The construction of the PluginRegistry: the configuration, the plugins
\* directory and the plugins whose _initialize() raises are the inputs.
Startup ==
    /\ call = NoCall
    /\ \E auto_load \in BOOLEAN, order \in Orders(DiscoverableClasses),
          enabled \in Orders(PluginNames) :
       \E properties, disabled, raisingInits \in SUBSET PluginNames :
       \E available \in {discover_plugins(order, properties)} :
       \E r \in {load_enabled_plugins(State, auto_load, enabled, disabled,
                                      available, raisingInits)} :
        /\ SetState(r.S)
        /\ UNCHANGED <<pipelineVars, eventVars>>
        /\ call' = [op |-> "load_enabled_plugins", auto_load |-> auto_load,
                    enabled |-> enabled, disabled |-> disabled,
                    available |-> available, attempts |-> r.attempts,
                    outcome |-> "returned", reported |-> r.exc # NoError]

StartupInit == PipelineInitVars /\ PluginInitVars /\ EventInitVars

StartupNext == Startup

StartupSpec == StartupInit /\ [][StartupNext]_vars

(***************************************************************************)
(* The Shell's command table: ChuiCLI.register_plugin_command and          *)
(* ChuiCLI.unregister_command called one after the other                   *)
(***************************************************************************)

\* register_plugin_command(name, command_class): the CommandError of the
\* CommandRegistry is reported and raised again.
RegisterPluginCommand(name) ==
    LET r == register_plugin_command(State, name) IN
    /\ SetState(r.S)
    /\ UNCHANGED <<pipelineVars, eventVars>>
    /\ call' = [NoCall EXCEPT !.op = "register_plugin_command", !.arg = name,
                              !.outcome = IF r.exc = NoError THEN "returned"
                                          ELSE "raised",
                              !.exc = r.exc, !.reported = r.exc # NoError]

\* unregister_command(name)
UnregisterCommand(name) ==
    /\ SetState(unregister_command(State, name))
    /\ UNCHANGED <<pipelineVars, eventVars>>
    /\ call' = [NoCall EXCEPT !.op = "unregister_command", !.arg = name,
                              !.outcome = "returned",
                              !.found = get_command(State, name)]

ShellInit == PipelineInitVars /\ PluginInitVars /\ EventInitVars

ShellNext ==
    \/ \E name \in CommandNames : RegisterPluginCommand(name)
    \/ \E name \in CommandNames : UnregisterCommand(name)

ShellSpec == ShellInit /\ [][ShellNext]_vars

(***************************************************************************)
(* CommandRegistry called directly                                         *)
(***************************************************************************)

\* Category arguments: two core categories, a new name the pattern accepts,
\* the same name with a newline at its end, and two names the pattern
\* rejects.
ops == <<"o", "p", "s">>
ops_newline == <<"o", "p", "s", "\n">>
Ops == <<"O", "p", "s">>
empty == <<>>
Categories == {general, plugin, ops, ops_newline, Ops, empty}

\* register(name, command_class, category, instance)
Register(name, category, instance) ==
    LET r == registry_register(State, name, category, instance) IN
    /\ SetState(r.S)
    /\ call' = [NoCall EXCEPT !.op = "register", !.arg = name,
                              !.category = category, !.instance = instance,
                              !.outcome = IF r.exc = NoError THEN "returned"
                                          ELSE "raised",
                              !.exc = r.exc]
    /\ UNCHANGED <<pipelineVars, eventVars>>

\* unregister(name)
Unregister(name) ==
    /\ SetState(registry_unregister(State, name))
    /\ call' = [NoCall EXCEPT !.op = "unregister", !.arg = name,
                              !.outcome = "returned",
                              !.found = name \in registry_commands]
    /\ UNCHANGED <<pipelineVars, eventVars>>

\* add_category(category)
AddCategory(category) ==
    /\ SetState(add_category(State, category))
    /\ call' = [NoCall EXCEPT !.op = "add_category", !.category = category,
                              !.outcome = "returned"]
    /\ UNCHANGED <<pipelineVars, eventVars>>

RegistryInit == PipelineInitVars /\ PluginInitVars /\ EventInitVars

RegistryNext ==
    \/ \E name \in RegisteredDirectly, category \in Categories, instance \in BOOLEAN :
        Register(name, category, instance)
    \/ \E name \in RegisteredDirectly : Unregister(name)
    \/ \E category \in Categories : AddCategory(category)

RegistrySpec == RegistryInit /\ [][RegistryNext]_vars

PipelineInit == PipelineInitVars /\ PluginInitVars /\ EventInitVars

PipelineNext ==
    \/ \E t \in {"pre_execute", "post_execute", "on_error"} : RegisterHook(t)
    \/ \E id \in Ids : CancelCommand(id)
    \/ \E ctx \in Contexts(nextId) : Execute(ctx)
    \/ PreHook
    \/ EmitStarted
    \/ Strategy
    \/ MarkCompleted
    \/ PostHook
    \/ EmitCompleted
    \/ Except
    \/ ErrorHook
    \/ EmitFailed
    \/ HandleError
    \/ Finally

PipelineSpec == PipelineInit /\ [][PipelineNext]_vars

(***************************************************************************)
(* Properties of the CommandPipeline                                       *)
(***************************************************************************)

\* C1: every result get_result returns has a terminal status, a non-null
\* end_time and end_time >= start_time.
C1_StoredResultsAreTerminal ==
    \A id \in Ids :
        get_result(id) # NoResult =>
            /\ get_result(id).status \in Terminal
            /\ get_result(id).end_time # None
            /\ get_result(id).end_time[1] >= get_result(id).start_time

\* C1 witness: execute has stored a result whose end_time is later than its
\* start_time.
C1_Witness ==
    \E id \in Ids :
        /\ ret.outcome # "none"
        /\ get_result(id).status \in Terminal
        /\ get_result(id).end_time # None
        /\ get_result(id).end_time[1] > get_result(id).start_time

\* C2: when a call of execute ends, however it ends, its invocation id is
\* absent from get_active_commands() and the result store holds a result
\* for it.
C2_ExecuteCleansUp ==
    ret.outcome # "none" =>
        /\ ret.context.command_id \notin get_active_commands
        /\ get_result(ret.context.command_id) # NoResult

\* C2 witness: a call of execute ended by the exception of an on_error hook.
C2_Witness ==
    /\ ret.outcome = "raised"
    /\ ret.exc = HookException
    /\ ret.ran.on_error > 0

\* C3: once the result of an invocation has a terminal status, no later step
\* of execute or of cancel_command changes that status: neither the status
\* of the result execute holds, nor the status of the stored result.
C3_TerminalStatusIsFinal ==
    [][/\ (pc # "idle" /\ pc' # "idle" /\ result.status \in Terminal)
            => result'.status = result.status
       /\ \A id \in Ids :
            results[id].status \in Terminal
                => results'[id].status = results[id].status]_vars

\* C4: a local invocation that execute runs without a hook or event-handler
\* failure is COMPLETED only when the child exits with code 0 within the
\* timeout; otherwise it is FAILED, after a timeout with exit code -1 and an
\* error text that mentions the timeout value.
C4_LocalOutcome ==
    (ret.outcome = "returned" /\ ret.context.host = "") =>
        /\ ret.result = get_result(ret.context.command_id)
        /\ ret.result.status = COMPLETED <=> ret.context.proc = "exit0"
        /\ ret.context.proc # "exit0" => ret.result.status = FAILED
        /\ ret.context.proc = "overrun" =>
            /\ ret.result.exit_code = Some(-1)
            /\ ret.result.error.n = ret.context.timeout[1]

\* C5: an invocation with a non-empty host never runs the local strategy and
\* yields a FAILED result with the text "Remote execution not yet
\* implemented".
C5_RemoteFails ==
    (ret.outcome = "returned" /\ ret.context.host # "") =>
        /\ ret.ran.strategy = "remote"
        /\ ret.result = get_result(ret.context.command_id)
        /\ ret.result.status = FAILED
        /\ ret.result.error = Msg("Remote execution not yet implemented", 0)

\* C6: cancel_command(id) of an id that is not active raises a lookup error,
\* emits no event and leaves the active map and the result store unchanged;
\* of an active id, it removes the id from the active map, stores a
\* CANCELLED result that get_result(id) returns, and emits command.cancelled
\* with that id.
C6_CancelCommand ==
    [][cancelRet'.outcome # "none" =>
        LET id == cancelRet'.command_id IN
        IF id \notin active_commands
        THEN /\ cancelRet'.outcome = "raised"
             /\ cancelRet'.exc = ValueError
             /\ active_commands' = active_commands
             /\ results' = results
             /\ \A e \in emitted' \ emitted : e[1] # "command.cancelled"
        ELSE /\ id \notin active_commands'
             /\ results'[id].status = CANCELLED
             /\ results'[id].command_id = id
             /\ <<"command.cancelled", id>> \in emitted'
             /\ cancelRet'.exc \in {NoException, EventError}]_vars

\* C6 witness: cancel_command of an active id has returned.
C6_Witness ==
    /\ cancelRet.outcome = "returned"
    /\ cancelRet.command_id \notin active_commands
    /\ get_result(cancelRet.command_id).status = CANCELLED
    /\ <<"command.cancelled", cancelRet.command_id>> \in emitted

(***************************************************************************)
(* Properties of the plugin lifecycle                                      *)
(***************************************************************************)

\* The plugins another loaded plugin needs: the loaded plugins that list
\* name in their dependencies.
Dependents(name) ==
    {p \in Range(plugins) : name \in Range(ClassOf(p).dependencies)}

\* C7: a load_plugin that succeeds registers exactly the names of the
\* plugin's get_commands(): each is new, is in the CommandRegistry under
\* category 'plugin' with an instance and is bound in the Shell's command
\* table; no other name is added and no other command is touched.
C7_LoadRegistersCommands ==
    [][(call'.op = "load_plugin" /\ call'.outcome = "returned") =>
        LET names == Range(ClassOf(call'.arg).commands) IN
        /\ names \cap registry_commands = {}
        /\ registry_commands' = registry_commands \cup names
        /\ registry_instances' = registry_instances \cup names
        /\ shell_commands' = shell_commands \cup names
        /\ shell_attrs' = shell_attrs \cup names
        /\ names \subseteq Range(registry_categories'[plugin])
        /\ DOMAIN registry_categories' = DOMAIN registry_categories
        /\ \A c \in DOMAIN registry_categories :
            Filter(registry_categories'[c], Range(registry_categories'[c]) \ names)
                = registry_categories[c]]_vars

\* C7 witness: ext has been loaded after core; its two commands and the
\* command of core are registered and bound.
C7_Witness ==
    /\ call.op = "load_plugin" /\ call.arg = "ext" /\ call.outcome = "returned"
    /\ {"deploy", "rollback", "status"} \subseteq registry_commands
    /\ {"deploy", "rollback", "status"} \subseteq shell_commands

\* C8: an unload_plugin that unloads a plugin removes the names of its
\* get_commands() from the CommandRegistry's command map, from every
\* category list and from the Shell's command table, and leaves the commands
\* of the other plugins registered.
C8_UnloadRemovesCommands ==
    [][(/\ call'.op = "unload_plugin"
        /\ call'.arg \in Range(plugins)
        /\ call'.arg \notin Range(plugins')) =>
        LET names == Range(ClassOf(call'.arg).commands) IN
        /\ names \cap registry_commands' = {}
        /\ \A c \in DOMAIN registry_categories' :
            names \cap Range(registry_categories'[c]) = {}
        /\ names \cap shell_commands' = {}
        /\ registry_commands \ names \subseteq registry_commands'
        /\ shell_commands \ names \subseteq shell_commands']_vars

\* C9: load_plugin of a plugin with a dependency that is not loaded raises a
\* PluginError listing exactly the missing names, calls no initialize(),
\* registers no command, emits no plugin_loaded and leaves the loaded map
\* and the load order unchanged; a named plugin whose dependencies are all
\* loaded, that is not loaded yet, whose initialize() and plugin_loaded
\* subscribers do not raise and whose command names are free, loads.
C9_MissingDependencies ==
    [][call'.op = "load_plugin" =>
        LET cls == ClassOf(call'.arg)
            missing == Range(cls.dependencies) \ Range(plugins)
        IN
        /\ missing # {} =>
            /\ call'.outcome = "raised"
            /\ call'.exc.type = "PluginError"
            /\ Range(call'.exc.names) = missing
            /\ Len(call'.exc.names) = Cardinality(missing)
            /\ ~call'.hookCalled
            /\ call'.emitted = {}
            /\ UNCHANGED <<plugins, load_order, initialized, registry_commands,
                           registry_categories, registry_instances,
                           shell_commands, shell_attrs>>
        /\ (/\ missing = {}
            /\ cls.name # ""
            /\ cls.name \notin Range(plugins)
            /\ ~call'.hookRaises
            /\ ~call'.handlerRaises
            /\ Range(cls.commands) \cap registry_commands = {}) =>
            /\ call'.outcome = "returned"
            /\ plugins' = Append(plugins, cls.name)
            /\ load_order' = Append(load_order, cls.name)]_vars

\* C9 witness: with core loaded and ext not, load_plugin(ToolsPlugin) has
\* raised the error that lists ext alone.
C9_Witness ==
    /\ call.op = "load_plugin" /\ call.arg = "tools" /\ call.outcome = "raised"
    /\ call.exc = PluginError("Missing dependencies", <<"ext">>)
    /\ plugins = <<"core">>

\* C10: unload_plugin(name) raises a PluginError when name is not loaded and
\* when another loaded plugin lists name in its dependencies, and then the
\* error names every such plugin.
C10_UnloadRaises ==
    [][call'.op = "unload_plugin" =>
        /\ call'.arg \notin Range(plugins) =>
            /\ call'.outcome = "raised"
            /\ call'.exc.type = "PluginError"
        /\ (call'.arg \in Range(plugins) /\ Dependents(call'.arg) # {}) =>
            /\ call'.outcome = "raised"
            /\ call'.exc.type = "PluginError"
            /\ Range(call'.exc.names) = Dependents(call'.arg)]_vars

\* C11: in every reachable state every dependency of every loaded plugin is
\* itself loaded, whatever load_plugin, unload_plugin, reload_plugin and
\* cleanup calls were made and however they ended.
C11_DependenciesLoaded ==
    \A p \in Range(plugins) : Range(ClassOf(p).dependencies) \subseteq Range(plugins)

\* C11 witness: unload_plugin("core") was refused while ext, which depends
\* on core, is loaded; both are still loaded.
C11_Witness ==
    /\ call.op = "unload_plugin" /\ call.arg = "core"
    /\ call.exc = PluginError("Cannot unload, required by", <<"ext">>)
    /\ plugins = <<"core", "ext">>

\* C12: reload_plugin(name) raises when name is not loaded; for a loaded
\* plugin without dependents whose initialize() succeeds (and whose event
\* subscribers do not raise) it returns, and afterwards the plugin is loaded
\* and initialized, is once in the load order, and each of its get_commands()
\* names is registered, listed once and bound in the Shell.
C12_ReloadRunsLifecycle ==
    [][call'.op = "reload_plugin" =>
        LET name == call'.arg
            names == Range(ClassOf(name).commands)
        IN
        /\ name \notin Range(plugins) => call'.outcome = "raised"
        /\ (/\ name \in Range(plugins)
            /\ Dependents(name) = {}
            /\ ~call'.hookRaises
            /\ ~call'.handlerRaises) =>
            /\ call'.outcome = "returned"
            /\ name \in Range(plugins')
            /\ name \in initialized'
            /\ Len(Filter(load_order', {name})) = 1
            /\ names \subseteq registry_commands'
            /\ names \subseteq shell_commands'
            /\ \A n \in names :
                Len(Filter(registry_categories'[plugin], {n})) = 1]_vars

\* C13: whenever cleanup() returns without raising, the loaded map and the
\* load order are empty.
C13_CleanupUnloadsAll ==
    [][(call'.op = "cleanup" /\ call'.outcome = "returned") =>
        /\ plugins' = <<>>
        /\ load_order' = <<>>]_vars

\* C14: when initialize() is reached in load_plugin and the plugin's
\* _initialize() raises, load_plugin raises a PluginError naming the plugin,
\* the loaded map, the load order, the CommandRegistry and the Shell are
\* unchanged and plugin_loaded is not emitted.
C14_InitializeFailureAborts ==
    [][(call'.op = "load_plugin" /\ call'.hookCalled /\ call'.hookRaises) =>
        /\ call'.outcome = "raised"
        /\ call'.exc.type = "PluginError"
        /\ call'.exc.names = <<call'.arg>>
        /\ call'.emitted = {}
        /\ UNCHANGED <<plugins, load_order, initialized, registry_commands,
                       registry_categories, registry_instances,
                       shell_commands, shell_attrs>>]_vars

\* C14 witness: with core loaded, load_plugin(ExtPlugin) reached
\* initialize(), whose hook raised; ext is not loaded.
C14_Witness ==
    /\ call.op = "load_plugin" /\ call.arg = "ext"
    /\ call.hookCalled /\ call.hookRaises
    /\ call.exc = PluginError("Failed to initialize plugin", <<"ext">>)
    /\ plugins = <<"core">>

\* C15: when _cleanup() raises during unload_plugin of a loaded plugin
\* without dependents, the exception is reported and does not reach the
\* caller, the plugin leaves the loaded map and the load order, and
\* plugin_unloaded is emitted.
C15_CleanupFailureSwallowed ==
    [][(/\ call'.op = "unload_plugin"
        /\ call'.arg \in Range(plugins)
        /\ Dependents(call'.arg) = {}
        /\ call'.hookRaises) =>
        /\ call'.outcome = "returned"
        /\ call'.reported
        /\ call'.exc \in {NoError, HandlerError}
        /\ call'.arg \notin Range(plugins')
        /\ call'.arg \notin Range(load_order')
        /\ "plugin_unloaded" \in call'.emitted]_vars

\* C15 witness: ext was unloaded although its _cleanup() raised; core stays.
C15_Witness ==
    /\ call.op = "unload_plugin" /\ call.arg = "ext"
    /\ call.hookRaises /\ call.reported
    /\ "plugin_unloaded" \in call.emitted
    /\ plugins = <<"core">>

(***************************************************************************)
(* Properties of the CommandRegistry                                       *)
(***************************************************************************)

\* The name pattern: a lowercase letter, then lowercase letters, digits,
\* '_' or '-'.
NamePattern(category) ==
    /\ Len(category) > 0
    /\ category[1] \in Lower
    /\ \A i \in 2..Len(category) : category[i] \in Lower \cup Digit \cup {"_", "-"}

\* The categories that list name.
CategoriesOf(cats, name) == {c \in DOMAIN cats : name \in Range(cats[c])}

\* C16: register of a name that is already registered raises CommandError
\* whatever category and instance are passed, and leaves the command map,
\* the instance map, every category list and the valid categories as they
\* were.
C16_RegisterTwiceRaises ==
    [][(call'.op = "register" /\ call'.arg \in registry_commands) =>
        /\ call'.outcome = "raised"
        /\ call'.exc = CommandError(call'.arg)
        /\ UNCHANGED <<registry_commands, registry_instances,
                       registry_categories, extended_categories>>]_vars

\* C16 witness: a registered name was registered again with a category that
\* the pattern accepts and that is not valid; the call raised and the
\* category is still not valid.
C16_Witness ==
    /\ call.op = "register" /\ call.outcome = "raised"
    /\ call.arg \in registry_commands
    /\ call.category = ops /\ call.instance
    /\ ops \notin get_all_categories(State)
    /\ call.arg \notin registry_instances

\* C17: register of a new name with a category outside the valid set
\* returns; when the category matches the name pattern the category becomes
\* valid and lists the name, otherwise 'general' lists the name and the valid
\* set is unchanged.
C17_CategoryFallback ==
    [][(/\ call'.op = "register"
        /\ call'.arg \notin registry_commands
        /\ call'.category \notin get_all_categories(State)) =>
        /\ call'.outcome = "returned"
        /\ call'.arg \in registry_commands'
        /\ IF NamePattern(call'.category)
           THEN /\ extended_categories' = extended_categories \cup {call'.category}
                /\ CategoriesOf(registry_categories', call'.arg) = {call'.category}
           ELSE /\ extended_categories' = extended_categories
                /\ CategoriesOf(registry_categories', call'.arg) = {general}]_vars

\* C18: unregister(name) returns; it removes name from the command map, the
\* instance map and every category list and changes nothing else; when name
\* is not registered nothing changes.
C18_Unregister ==
    [][call'.op = "unregister" =>
        LET name == call'.arg IN
        /\ call'.outcome = "returned"
        /\ registry_commands' = registry_commands \ {name}
        /\ registry_instances' = registry_instances \ {name}
        /\ DOMAIN registry_categories' = DOMAIN registry_categories
        /\ \A c \in DOMAIN registry_categories :
            registry_categories'[c] =
                Filter(registry_categories[c], Range(registry_categories[c]) \ {name})
        /\ extended_categories' = extended_categories
        /\ name \notin registry_commands =>
            UNCHANGED <<registry_commands, registry_instances,
                        registry_categories>>]_vars

\* C18 witness: status, which was registered, has been unregistered while
\* deploy is registered with an instance under 'ops'.
C18_Witness ==
    /\ call.op = "unregister" /\ call.arg = "status" /\ call.found
    /\ registry_commands = {"deploy"}
    /\ registry_instances = {"deploy"}
    /\ ops \in DOMAIN registry_categories
    /\ registry_categories[ops] = <<"deploy">>

(***************************************************************************)
(* Properties of the EventManager                                          *)
(***************************************************************************)

\* The handlers subscribed to key, in the order they were subscribed, one
\* entry per subscription.
Subscribed(subs, key) ==
    LET own == SelectSeq(subs, LAMBDA s : s[1] = key)
    IN [i \in 1..Len(own) |-> own[i][2]]

\* The dispatch order of an event: the handlers of its name, then the
\* wildcard handlers.
DispatchOrder(subs, name) == Subscribed(subs, name) \o Subscribed(subs, Wildcard)

\* C19: an emit in which every handler called returns without changing the
\* subscriptions calls the handlers subscribed to event.name, in the order
\* they were subscribed, then the wildcard handlers, in the order they were
\* subscribed, each once per subscription, and no other handler.
C19_DispatchOrder ==
    [][(/\ busCall'.op = "emit"
        /\ \A h \in Handlers : busCall'.behaviour[h] = "returns") =>
        /\ busCall'.outcome = "returned"
        /\ busCall'.log = DispatchOrder(subscriptions, busCall'.event.name)
        /\ subscriptions' = subscriptions]_vars

\* C19 witness: h1 subscribed to the wildcard before h2 subscribed to "a";
\* emit of "a" called h2 and then h1.
C19_Witness ==
    /\ busCall.op = "emit" /\ busCall.outcome = "returned"
    /\ busCall.event.name = "a"
    /\ subscriptions = <<<<Wildcard, "h1">>, <<"a", "h2">>>>
    /\ busCall.log = <<"h2", "h1">>

\* C20: when a handler raises during emit, emit raises an EventError whose
\* original_error is the exception of that handler, no handler after it in
\* the dispatch order is called, and an event that carries the id of an
\* active operation has been appended to the timeline of that operation.
C20_HandlerFailure ==
    [][busCall'.op = "emit" =>
        LET c == busCall'
            n == Len(c.log)
            id == c.event.operation_id
        IN
        /\ \A i \in 1..n : c.behaviour[c.log[i]] = "raises" =>
            /\ i = n
            /\ c.outcome = "raised"
            /\ c.exc.type = "EventError"
            /\ c.exc.original_error = HandlerException(c.log[i])
        /\ c.outcome = "raised" =>
            /\ n > 0
            /\ c.behaviour[c.log[n]] = "raises"
            /\ subscriptions' = subscriptions =>
                c.log = SubSeq(DispatchOrder(subscriptions, c.event.name), 1, n)
            /\ id \in DOMAIN active_operations =>
                active_operations'[id].events =
                    Append(active_operations[id].events, TimelineEntry(c.event))]_vars

(***************************************************************************)
(* Properties of the operations of the EventManager                        *)
(***************************************************************************)

\* get_operation_timeline(id) before and after a step.
Timeline(id) == get_operation_timeline(active_operations, completed_operations, id)
TimelineAfter(id) ==
    get_operation_timeline(active_operations', completed_operations', id)

\* A timeline in non-decreasing timestamp order.
NonDecreasing(timeline) ==
    \A i \in 1..(Len(timeline) - 1) : timeline[i].timestamp <= timeline[i + 1].timestamp

\* The number of entries of timeline that equal entry.
Occurrences(timeline, entry) == Len(Filter(timeline, {entry}))

\* The timeline entries events can have.
TimelineEntries == {[timestamp |-> t, name |-> n] : t \in {0} \cup Timestamps, n \in EventNames}

\* C21 as stated: every event emitted with an id that start_operation
\* returned is in get_operation_timeline(id) from then on, the timeline is
\* in non-decreasing timestamp order, and it is empty for an id that
\* start_operation never returned.
C21_TimelineHasEveryEvent ==
    [][\A id \in OperationIds :
        /\ NonDecreasing(TimelineAfter(id))
        /\ id \notin operation_ids' => TimelineAfter(id) = <<>>
        /\ (/\ busCall'.op = "emit"
            /\ busCall'.event.operation_id = id
            /\ id \in operation_ids) =>
            TimelineEntry(busCall'.event) \in Range(TimelineAfter(id))
        /\ Range(Timeline(id)) \subseteq Range(TimelineAfter(id))]_vars

\* C21, amended: an event emitted with the id of an operation that is active
\* is added to get_operation_timeline(id); no other step changes the
\* timeline of an operation that stays in the active or the completed store
\* (an emit for a completed operation adds nothing, and cleanup_completed
\* removes an operation together with its timeline); the timeline is in
\* non-decreasing timestamp order and is empty for an id in neither store.
C21_TimelineOfActive ==
    [][\A id \in OperationIds :
        LET emitted_to == /\ busCall'.op = "emit"
                          /\ busCall'.event.operation_id = id
                          /\ id \in DOMAIN active_operations
            stored == id \in DOMAIN active_operations' \cup DOMAIN completed_operations'
        IN
        /\ NonDecreasing(TimelineAfter(id))
        /\ ~stored => TimelineAfter(id) = <<>>
        /\ id \notin operation_ids' => TimelineAfter(id) = <<>>
        /\ emitted_to =>
            \A e \in TimelineEntries :
                Occurrences(TimelineAfter(id), e) =
                    Occurrences(Timeline(id), e)
                    + (IF e = TimelineEntry(busCall'.event) THEN 1 ELSE 0)
        /\ (~emitted_to /\ stored) => TimelineAfter(id) = Timeline(id)]_vars

\* C21 witness: two events were emitted to the active operation op1, the
\* later timestamp first; the timeline has the earlier one first.
C21_Witness ==
    /\ busCall.op = "emit" /\ busCall.event.operation_id = "op1"
    /\ "op1" \in DOMAIN active_operations
    /\ active_operations["op1"].events =
        <<[timestamp |-> 2, name |-> "a"], [timestamp |-> 1, name |-> "b"]>>
    /\ Timeline("op1") =
        <<[timestamp |-> 1, name |-> "b"], [timestamp |-> 2, name |-> "a"]>>

\* C22: complete_operation(id, status) raises ValueError and changes neither
\* store when id is not active, also when id is completed; otherwise it
\* moves the context from the active to the completed store with the status
\* and an end time; after the step no id is in both stores.
C22_CompleteOperation ==
    [][busCall'.op = "complete_operation" =>
        LET id == busCall'.event.operation_id IN
        /\ DOMAIN active_operations' \cap DOMAIN completed_operations' = {}
        /\ IF id \notin DOMAIN active_operations
           THEN /\ busCall'.outcome = "raised"
                /\ busCall'.exc.type = "ValueError"
                /\ UNCHANGED <<active_operations, completed_operations>>
           ELSE /\ busCall'.outcome = "returned"
                /\ DOMAIN active_operations' = DOMAIN active_operations \ {id}
                /\ \A o \in DOMAIN active_operations' :
                    active_operations'[o] = active_operations[o]
                /\ DOMAIN completed_operations' = DOMAIN completed_operations \cup {id}
                /\ \A o \in DOMAIN completed_operations \ {id} :
                    completed_operations'[o] = completed_operations[o]
                /\ completed_operations'[id].status = busCall'.status
                /\ completed_operations'[id].end_time # None
                /\ completed_operations'[id].events = active_operations[id].events]_vars

\* C22 witness: complete_operation of op1, which is in the completed store
\* with status "failed", has raised.
C22_Witness ==
    /\ busCall.op = "complete_operation" /\ busCall.outcome = "raised"
    /\ busCall.event.operation_id = "op1" /\ busCall.status = "completed"
    /\ "op1" \in DOMAIN completed_operations
    /\ completed_operations["op1"].status = "failed"

(***************************************************************************)
(* Properties of startup loading                                           *)
(***************************************************************************)

\* The plugin names of the load_plugin calls of the startup, in call order.
Attempted == [i \in DOMAIN call.attempts |-> call.attempts[i].name]

\* The names of the discovered plugins, in discovery order.
DiscoveredNames == [i \in DOMAIN call.available |-> call.available[i].cls.name]

\* C23: with auto_load set, load_plugin is attempted for every discovered
\* plugin whose name is not in the disabled list, in discovery order,
\* whichever of the earlier attempts failed; with auto_load off, it is
\* attempted only for names of the enabled list that are discovered and
\* are not in the disabled list.
C23_StartupLoading ==
    call.op = "load_enabled_plugins" =>
        IF call.auto_load
        THEN /\ Range(DiscoveredNames) \ call.disabled \subseteq Range(Attempted)
             /\ Attempted = Filter(DiscoveredNames, Range(Attempted))
        ELSE Range(Attempted) \subseteq
                (Range(call.enabled) \cap Range(DiscoveredNames)) \ call.disabled

\* C23 witness: with auto_load set and tools disabled, ext was found before
\* core and its load failed; core was attempted after it and loaded.
C23_Witness ==
    /\ call.op = "load_enabled_plugins" /\ call.auto_load
    /\ call.disabled = {"tools"}
    /\ DiscoveredNames = <<"tools", "ext", "core">>
    /\ call.attempts = <<[name |-> "ext", outcome |-> "raised"],
                         [name |-> "core", outcome |-> "returned"]>>
    /\ plugins = <<"core">>

(***************************************************************************)
(* Properties of execute when a callback raises or cancels                 *)
(***************************************************************************)

\* The step on which execute ends: its finally clause.
ExecuteEnds == pc = "finally" /\ pc' = "idle"

\* A pre_execute hook of the invocation in progress has raised: execute
\* left the pre phase without emitting command.started.
PreHookRaised == pc \notin {"idle", "pre"} /\ ~ran.started

\* What every execute in which a pre_execute hook raised does, whatever the
\* on_error hooks do: no pre_execute hook runs after the exception, no
\* strategy is run, command.started is not emitted, and the result stored
\* is FAILED with the exception text and an end time.
PreHookFailureStored ==
    /\ ran'.pre > ran.pre => exc = NoException
    /\ (ExecuteEnds /\ PreHookRaised) =>
        /\ ran.strategy = "none"
        /\ <<"command.started", context.command_id>> \notin emitted'
        /\ results'[context.command_id].status = FAILED
        /\ results'[context.command_id].error = HookException.msg
        /\ results'[context.command_id].end_time # None

C25_ExceptionIsReported ==
    [][(ExecuteEnds /\ exc # NoException /\ context.command_id \in active_commands) =>
        /\ handle({"error", "command", "host"}) = NoException
        /\ ret'.outcome = "returned"
        /\ ret'.result.status = FAILED
        /\ ret'.result = results'[context.command_id]]_vars

\* C29: when cancel_command(id) was called during execute(id), so that id
\* has left the active map before the finally clause, the stored result is
\* still CANCELLED after execute ends and the finally clause does not raise.
C29_CancelDuringExecute ==
    [][(ExecuteEnds /\ context.command_id \notin active_commands) =>
        /\ results[context.command_id].status = CANCELLED
        /\ results'[context.command_id].status = CANCELLED
        /\ ret'.exc # KeyError]_vars

(***************************************************************************)
(* Properties of the command tables                                        *)
(***************************************************************************)

\* C26: a load_plugin that raises leaves the loaded map, the load order,
\* the CommandRegistry and the Shell's command table as they were.
C26_FailedLoadChangesNothing ==
    [][(call'.op = "load_plugin" /\ call'.outcome = "raised") =>
        /\ plugins' = plugins
        /\ load_order' = load_order
        /\ registry_commands' = registry_commands
        /\ registry_categories' = registry_categories
        /\ registry_instances' = registry_instances
        /\ shell_commands' = shell_commands
        /\ shell_attrs' = shell_attrs]_vars

\* C27: the names bound in the Shell's command table are the names
\* registered in the CommandRegistry, and a register_plugin_command of a
\* name that is not bound in the Shell returns.
C27_ShellMatchesRegistry ==
    [][/\ {name \in CommandNames : get_command(State, name)} = registry_commands
       /\ (/\ call'.op = "register_plugin_command"
           /\ ~get_command(State, call'.arg)) => call'.outcome = "returned"]_vars

\* The places of a name in the category lists: the category and the index.
Places(cats, name) ==
    {p \in UNION {{<<c, i>> : i \in DOMAIN cats[c]} : c \in DOMAIN cats} :
        cats[p[1]][p[2]] = name}

\* C28: after any sequence of register, unregister and add_category calls,
\* every registered name is in exactly one category list, once; every name
\* of a category list is registered; and every category that has a list is
\* in get_all_categories().
C28_CategoryListsConsistent ==
    /\ \A name \in registry_commands :
        Cardinality(Places(registry_categories, name)) = 1
    /\ \A c \in DOMAIN registry_categories :
        Range(registry_categories[c]) \subseteq registry_commands
    /\ DOMAIN registry_categories \subseteq get_all_categories(State)

\* C28 witness: status is registered in the auto-created category ops,
\* deploy fell back to general, and the last register raised.
C28_Witness ==
    /\ call.op = "register" /\ call.outcome = "raised"
    /\ ops \in DOMAIN registry_categories
    /\ registry_categories[ops] = <<"status">>
    /\ registry_categories[general] = <<"deploy">>
    /\ registry_commands = {"status", "deploy"}

(***************************************************************************)
(* Properties of a dispatch during which the subscriptions change          *)
(***************************************************************************)

\* C30: an emit in which no handler raises calls every handler that was
\* subscribed to event.name or to the wildcard when emit was called, once
\* for each of its subscriptions, also when a handler unsubscribes during
\* the dispatch.
C30_EveryHandlerCalledOnce ==
    [][(busCall'.op = "emit" /\ busCall'.outcome = "returned") =>
        \A h \in Handlers :
            Occurrences(busCall'.log, h) =
                Occurrences(DispatchOrder(subscriptions, busCall'.event.name), h)]_vars

====
